---- MODULE Spec2Model ----
(***************************************************************************)
(* The Twitch chat bot backend of src/index.js: the /gpt/:text handler,     *)
(* the retry loop (withRetry), the timeout race (withTimeout), the model    *)
(* fallback, the shared conversation (messages) and the response deadline.  *)
(*                                                                          *)
(* Time is digitised: one Tick is TickMs milliseconds.  A timer holds the   *)
(* number of ticks left; a timer at 0 is due and time does not pass before  *)
(* its callback has run.  Everything the event loop runs without returning  *)
(* to the timers or the network (a handler up to its next await, a promise  *)
(* continuation chain) is one action.                                       *)
(***************************************************************************)
EXTENDS Integers, Sequences, FiniteSets, TLC

\* ---- bounds of the model ------------------------------------------------
MaxReq == 2          \* /gpt requests served in one run
MaxHistory == 1      \* HISTORY_LENGTH ranges over 0..MaxHistory
MaxRetries == 1      \* OPENAI_RETRIES ranges over 0..MaxRetries (Spec, SpecSeq)
MaxRetriesOne == 3   \* OPENAI_RETRIES ranges over 0..MaxRetriesOne (SpecOne)
TickMs == 10000      \* milliseconds in one tick

\* ---- program constants --------------------------------------------------
OPENAI_TIMEOUT_MS == 20000
SERVER_TIMEOUT_MS == 25000
BaseDelay == 400
Factor == 2
JitterMax == 200
TwitchLimit == 1000

OPENAI_MODEL == "gpt-5"
Models == {"gpt-5", "gpt-5-mini"}

Req == 1..MaxReq
Slots == {"primary", "fallback"}

\* A timer of ms milliseconds is due after the ticks that cover ms.
Ticks(ms) == (ms + TickMs - 1) \div TickMs
ClientTicks == Ticks(OPENAI_TIMEOUT_MS)
ServerTicks == Ticks(SERVER_TIMEOUT_MS)

\* ---- error signals ------------------------------------------------------
RetriableStatuses == {408, 409, 425, 429, 500, 502, 503, 504}
RetriableCodes ==
  {"ECONNRESET", "EPIPE", "UND_ERR_CONNECT_TIMEOUT", "UND_ERR_HEADERS_TIMEOUT",
   "UND_ERR_BODY_TIMEOUT", "ETIMEDOUT", "ESOCKETTIMEDOUT"}
UnavailableStatuses == {429, 500, 502, 503, 504}

\* What a failed upstream call can carry: a status (0: none) and a code
\* ("": none).
Signals ==
  [status : RetriableStatuses \cup {400, 401}, code : {""}]
    \cup [status : {0}, code : RetriableCodes \cup {"ENOTFOUND"}]
\* One signal that is retried and one that is not.
CoreSignals == {[status |-> 503, code |-> ""], [status |-> 401, code |-> ""]}

\* What callOpenAIChat settles with: a value (Ok) or an error.  An error keeps
\* the slot whose invocation raised it and, for an upstream error, the number
\* n of the attempt that produced it.
NoErr == [kind |-> "none", status |-> 0, code |-> "", slot |-> "", n |-> 0]
Ok == [kind |-> "ok", status |-> 0, code |-> "", slot |-> "", n |-> 0]
UpstreamErr(sig, slot, n) ==
  [kind |-> "upstream", status |-> sig.status, code |-> sig.code, slot |-> slot, n |-> n]
ClientTimeoutErr(slot) ==
  [kind |-> "timeout", status |-> 0, code |-> "", slot |-> slot, n |-> 0]
HeadersSentErr ==
  [kind |-> "headers", status |-> 0, code |-> "ERR_HTTP_HEADERS_SENT", slot |-> "", n |-> 0]

\* Texts.  The system prompt and the PROMPT-mode prefix are the built-in
\* default or the text of file_context.txt.  A reply is a sequence of
\* characters: 0 is a whitespace character, i > 0 the i-th other character.
DefaultPrompt == 0
FileText == -1
Text(lead, n, trail) ==
  [i \in 1..(lead + n + trail) |-> IF i <= lead \/ i > lead + n THEN 0 ELSE i - lead]
\* Replies around the Twitch limit, with and without surrounding whitespace,
\* and the empty reply.
ReplyLengths == {0, 1, TwitchLimit - 1, TwitchLimit, TwitchLimit + 1}
Replies == {Text(l, n, t) : l \in 0..1, t \in 0..1, n \in ReplyLengths}
ShortReplies == {Text(0, 1, 0)}

VARIABLES
  GPT_MODE,        \* index.js:34  "CHAT" or "PROMPT"
  HISTORY_LENGTH,  \* index.js:35
  OPENAI_RETRIES,  \* index.js:38
  FALLBACK_MODEL,  \* index.js:37
  messages,        \* index.js:116 the shared conversation; content is the id
                   \*   of the request whose query or reply the entry holds
  pc,              \* per request: "idle", awaiting the "primary" or the
                   \*   "fallback" callOpenAIChat, or "done"
  res,             \* per request: the status sent, 0 while no headers are sent
  resTimer,        \* per request: ticks left of res.setTimeout, -1 not pending
  cliTimer,        \* per request: ticks left of the withTimeout timer, -1 none
  elapsed,         \* per request: ticks since the awaited callOpenAIChat began
  loop,            \* per request and slot: the withRetry loop
  ncalls,          \* per request and slot: upstream calls sent
  outcome,         \* per request and slot: "none", "pending", "ok", "failed"
  surfaced,        \* per request: the error caught at index.js:284
  file_context,    \* index.js:115 the PROMPT-mode prefix
  fileRead,        \* readFile of file_context.txt: "absent" (it fails),
                   \*   "pending" or "loaded"
  payload,         \* per request: the messages of its latest upstream call
  reply,           \* per request: the content of the first choice returned
  body,            \* per request: the body of its 200 response
  sends,           \* per request: responses sent
  uncaught         \* requests whose handler threw out of its catch block

vars ==
  <<GPT_MODE, HISTORY_LENGTH, OPENAI_RETRIES, FALLBACK_MODEL,
    messages, pc, res, resTimer, cliTimer, elapsed, loop, ncalls, outcome, surfaced,
    file_context, fileRead, payload, reply, body, sends, uncaught>>

\* What a step of a retry loop that nobody awaits leaves alone.
handler ==
  <<messages, pc, res, resTimer, cliTimer, elapsed, ncalls, outcome, surfaced,
    payload, reply, body, sends, uncaught>>

files == <<file_context, fileRead>>

config == <<GPT_MODE, HISTORY_LENGTH, OPENAI_RETRIES, FALLBACK_MODEL>>

\* ---- pure helpers -------------------------------------------------------
Min(a, b) == IF a < b THEN a ELSE b

RECURSIVE Pow(_, _)
Pow(b, e) == IF e = 0 THEN 1 ELSE b * Pow(b, e - 1)

\* Array.prototype.splice(start, deleteCount) on a 1-based sequence.
Splice(s, start, count) ==
  SubSeq(s, 1, Min(start, Len(s))) \o SubSeq(s, start + count + 1, Len(s))

\* Mutant: every HTTP error status is retried.
RetriableAnyStatus(err) ==
  err.status >= 400 \/ err.code \in RetriableCodes

Retriable(err) ==
  err.status \in RetriableStatuses \/ err.code \in RetriableCodes

\* Mutant: one retry too many.
RethrowLate(attempt, retries, err) == ~Retriable(err) \/ attempt > retries + 1

Rethrow(attempt, retries, err) == ~Retriable(err) \/ attempt > retries

Delay(attempt, jitter) == BaseDelay * Pow(Factor, attempt - 1) + jitter

\* A sleep of delay ms ends after this many ticks, by where in the tick it began.
SleepTicks(delay) == {delay \div TickMs, Ticks(delay)}

\* Mutant: every retried status is answered 503.
HttpStatusRetriable(err) == IF err.status \in RetriableStatuses THEN 503 ELSE 500

HttpStatus(err) == IF err.status \in UnavailableStatuses THEN 503 ELSE 500

IdleLoop == [st |-> "none", attempt |-> 0, sleep |-> -1]
CallingLoop == [st |-> "calling", attempt |-> 0, sleep |-> -1]

\* String.prototype.trim.
RECURSIVE StrTrim(_)
StrTrim(t) ==
  IF t = <<>> THEN t
  ELSE IF t[1] = 0 THEN StrTrim(Tail(t))
  ELSE IF t[Len(t)] = 0 THEN StrTrim(SubSeq(t, 1, Len(t) - 1))
  ELSE t

\* Mutant: one character short.
TrimOneShort(text) ==
  IF text = <<>> THEN <<>>
  ELSE IF Len(text) < TwitchLimit THEN text
  ELSE SubSeq(text, 1, TwitchLimit - 1)

trimForTwitch(text) ==
  IF text = <<>> THEN <<>>
  ELSE IF Len(text) <= TwitchLimit THEN text
  ELSE SubSeq(text, 1, TwitchLimit)

\* ---- initial state ------------------------------------------------------
\* The process after start-up: the conversation holds the system message.
InitState ==
  /\ messages = <<[role |-> "system", content |-> DefaultPrompt]>>
  /\ file_context = DefaultPrompt
  /\ payload = [r \in Req |-> <<>>]
  /\ reply = [r \in Req |-> <<>>]
  /\ body = [r \in Req |-> <<>>]
  /\ sends = [r \in Req |-> 0]
  /\ uncaught = {}
  /\ pc = [r \in Req |-> "idle"]
  /\ res = [r \in Req |-> 0]
  /\ resTimer = [r \in Req |-> -1]
  /\ cliTimer = [r \in Req |-> -1]
  /\ elapsed = [r \in Req |-> 0]
  /\ loop = [r \in Req |-> [s \in Slots |-> IdleLoop]]
  /\ ncalls = [r \in Req |-> [s \in Slots |-> 0]]
  /\ outcome = [r \in Req |-> [s \in Slots |-> "none"]]
  /\ surfaced = [r \in Req |-> NoErr]

Init ==
  /\ GPT_MODE \in {"CHAT", "PROMPT"}
  /\ HISTORY_LENGTH \in 0..MaxHistory
  /\ OPENAI_RETRIES \in 0..MaxRetries
  /\ FALLBACK_MODEL \in Models
  /\ InitState
  /\ fileRead = "absent"

\* ---- the /gpt handler ---------------------------------------------------
\* CHAT mode: push the user message, then drop two entries after the system
\* message when the array is longer than system + HISTORY_LENGTH pairs.
\* Mutant: the splice starts at the system message.
AppendUserFromZero(msgs, r, history) ==
  LET pushed == Append(msgs, [role |-> "user", content |-> r])
      maxLen == (history * 2) + 1
  IN  IF Len(pushed) > maxLen THEN Splice(pushed, 0, 2) ELSE pushed

AppendUser(msgs, r, history) ==
  LET pushed == Append(msgs, [role |-> "user", content |-> r])
      maxLen == (history * 2) + 1
  IN  IF Len(pushed) > maxLen THEN Splice(pushed, 1, 2) ELSE pushed

AppendAssistant(msgs, r) == Append(msgs, [role |-> "assistant", content |-> r])

\* Mutant: the primary failure is rethrown, the fallback never tried.
NeverFallback(result, slot) == FALSE

\* Mutant: the fallback call is made after the primary call, failed or not.
AlwaysFallback(result, slot) ==
  slot = "primary" /\ FALLBACK_MODEL # "" /\ FALLBACK_MODEL # OPENAI_MODEL

\* The catch around the primary call starts the fallback call.
NeedsFallback(result, slot) ==
  /\ result.kind # "ok"
  /\ slot = "primary"
  /\ FALLBACK_MODEL # "" /\ FALLBACK_MODEL # OPENAI_MODEL

\* Mutant: the timeout wraps each attempt, so a new attempt restarts it.
TimerRestarted(t) == IF t >= 0 THEN ClientTicks ELSE t

\* The timer of withTimeout spans the whole of withRetry: a new attempt
\* leaves it as it is.
TimerOnRetry(t) == t

\* Mutant: the callback only logs.
NoDeadlineResponse(sent) == sent

\* The callback of res.setTimeout: 504 unless the headers are sent.
DeadlineResponse(sent) == IF sent = 0 THEN 504 ELSE sent

Settled(result) == IF result.kind = "ok" THEN "ok" ELSE "failed"

\* Mutant: the timer is cleared after the try, which a rejection skips.
TimerKeptOnError(t, result) == IF result.kind = "ok" THEN -1 ELSE t

\* The finally of withTimeout: clearTimeout, however the race settled.
TimerAfterRace(t, result) == -1

\* Mutant: the assistant message is pushed in PROMPT mode too.
RecordReplyAnyMode(msgs, r, result) ==
  IF result.kind = "ok" THEN AppendAssistant(msgs, r) ELSE msgs

\* The push of the assistant message: in the CHAT branch, after the awaited
\* call returned; a call that threw has left the try block.
RecordReply(msgs, r, result) ==
  IF GPT_MODE = "CHAT" /\ result.kind = "ok" THEN AppendAssistant(msgs, r) ELSE msgs

\* The messages of an upstream call of request r.  CHAT mode passes the
\* shared array itself, PROMPT mode the two messages built when the handler
\* started.
Payload(r, msgs) == IF GPT_MODE = "CHAT" THEN msgs ELSE payload[r]

PromptPayload(prefix, r) ==
  <<[role |-> "system", content |-> DefaultPrompt],
    [role |-> "user", content |-> r, prefix |-> prefix]>>

\* Mutant: the catch block sends whatever was sent before.
SendUnguarded(status) == TRUE

\* The catch block of the handler sends only when no headers are sent.
SendGuarded(status) == status = 0

\* The catch block of the handler, entered with err.  A send after the
\* headers are sent throws, and nothing catches what a catch block throws.
Catch(r, err) ==
  /\ surfaced' = [surfaced EXCEPT ![r] = err]
  /\ IF SendGuarded(res[r])
     THEN IF res[r] = 0
          THEN /\ res' = [res EXCEPT ![r] = HttpStatus(err)]
               /\ sends' = [sends EXCEPT ![r] = @ + 1]
               /\ UNCHANGED uncaught
          ELSE /\ uncaught' = uncaught \cup {r}
               /\ UNCHANGED <<res, sends>>
     ELSE UNCHANGED <<res, sends, uncaught>>

\* The handler from the point where its awaited callOpenAIChat(slot) settles
\* with result (and text, the content returned, when it resolved); lp is the
\* retry loops as the settling step left them.  A response that is sent ends
\* the response timer.
Continue(r, slot, result, text, lp) ==
  IF NeedsFallback(result, slot) THEN
    /\ pc' = [pc EXCEPT ![r] = "fallback"]
    /\ outcome' = [outcome EXCEPT ![r] = [primary |-> Settled(result), fallback |-> "pending"]]
    /\ loop' = [lp EXCEPT ![r]["fallback"] = CallingLoop]
    /\ ncalls' = [ncalls EXCEPT ![r]["fallback"] = @ + 1]
    /\ payload' = [payload EXCEPT ![r] = Payload(r, messages)]
    /\ cliTimer' = [cliTimer EXCEPT ![r] = ClientTicks]
    /\ elapsed' = [elapsed EXCEPT ![r] = 0]
    /\ UNCHANGED <<messages, res, resTimer, surfaced, reply, body, sends, uncaught>>
  ELSE IF result.kind = "ok" THEN
    /\ pc' = [pc EXCEPT ![r] = "done"]
    /\ outcome' = [outcome EXCEPT ![r][slot] = "ok"]
    /\ reply' = [reply EXCEPT ![r] = text]
    /\ messages' = RecordReply(messages, r, result)
    /\ IF res[r] = 0
       THEN /\ res' = [res EXCEPT ![r] = 200]
            /\ body' = [body EXCEPT ![r] = trimForTwitch(StrTrim(text))]
            /\ sends' = [sends EXCEPT ![r] = @ + 1]
            /\ UNCHANGED <<surfaced, uncaught>>
       ELSE /\ Catch(r, HeadersSentErr)
            /\ UNCHANGED body
    /\ resTimer' = [resTimer EXCEPT ![r] = -1]
    /\ loop' = lp
    /\ cliTimer' = [cliTimer EXCEPT ![r] = TimerAfterRace(@, result)]
    /\ elapsed' = [elapsed EXCEPT ![r] = 0]
    /\ UNCHANGED <<ncalls, payload>>
  ELSE
    /\ pc' = [pc EXCEPT ![r] = "done"]
    /\ outcome' = [outcome EXCEPT ![r][slot] = "failed"]
    /\ messages' = RecordReply(messages, r, result)
    /\ Catch(r, result)
    /\ resTimer' = [resTimer EXCEPT ![r] = -1]
    /\ loop' = lp
    /\ cliTimer' = [cliTimer EXCEPT ![r] = TimerAfterRace(@, result)]
    /\ elapsed' = [elapsed EXCEPT ![r] = 0]
    /\ UNCHANGED <<ncalls, payload, reply, body>>

\* The read of file_context.txt, started and not awaited when the module
\* loads, completes.
LoadFile ==
  /\ fileRead = "pending"
  /\ fileRead' = "loaded"
  /\ IF GPT_MODE = "CHAT"
     THEN /\ messages' = [messages EXCEPT ![1].content = FileText]
          /\ UNCHANGED file_context
     ELSE /\ file_context' = FileText
          /\ UNCHANGED messages
  /\ UNCHANGED <<config, pc, res, resTimer, cliTimer, elapsed, loop, ncalls, outcome,
                 surfaced, payload, reply, body, sends, uncaught>>

\* A request arrives: the middleware arms the response timer and the handler
\* runs up to its first await, with the first upstream call sent.
Arrive(r) ==
  /\ pc[r] = "idle"
  /\ IF r = 1 THEN TRUE ELSE pc[r - 1] # "idle"
  /\ resTimer' = [resTimer EXCEPT ![r] = ServerTicks]
  /\ messages' = IF GPT_MODE = "CHAT"
                   THEN AppendUser(messages, r, HISTORY_LENGTH)
                   ELSE messages
  /\ pc' = [pc EXCEPT ![r] = "primary"]
  /\ outcome' = [outcome EXCEPT ![r]["primary"] = "pending"]
  /\ loop' = [loop EXCEPT ![r]["primary"] = CallingLoop]
  /\ ncalls' = [ncalls EXCEPT ![r]["primary"] = @ + 1]
  /\ cliTimer' = [cliTimer EXCEPT ![r] = ClientTicks]
  /\ elapsed' = [elapsed EXCEPT ![r] = 0]
  /\ payload' = [payload EXCEPT ![r] = IF GPT_MODE = "CHAT"
                                         THEN messages'
                                         ELSE PromptPayload(file_context, r)]
  /\ UNCHANGED <<config, files, res, surfaced, reply, body, sends, uncaught>>

\* The upstream call of loop (r, slot) resolves.
RespondOk(r, slot, text) ==
  /\ loop[r][slot].st = "calling"
  /\ LET lp == [loop EXCEPT ![r][slot].st = "resolved"]
     IN  IF pc[r] = slot
         THEN Continue(r, slot, Ok, text, lp)
         ELSE /\ loop' = lp
              /\ UNCHANGED handler
  /\ UNCHANGED <<config, files>>

\* The upstream call of loop (r, slot) fails with sig: the catch of withRetry
\* rethrows or goes to sleep.
RespondErr(r, slot, sig) ==
  /\ loop[r][slot].st = "calling"
  /\ LET attempt == loop[r][slot].attempt + 1
         err == UpstreamErr(sig, slot, attempt)
     IN  IF Rethrow(attempt, OPENAI_RETRIES, err)
         THEN LET lp == [loop EXCEPT ![r][slot] =
                           [st |-> "rejected", attempt |-> attempt, sleep |-> -1]]
              IN  IF pc[r] = slot
                  THEN Continue(r, slot, err, <<>>, lp)
                  ELSE /\ loop' = lp
                       /\ UNCHANGED handler
         ELSE /\ \E jitter \in {0, JitterMax} :
                   \E d \in SleepTicks(Delay(attempt, jitter)) :
                     loop' = [loop EXCEPT ![r][slot] =
                                [st |-> "sleeping", attempt |-> attempt, sleep |-> d]]
              /\ UNCHANGED handler
  /\ UNCHANGED <<config, files>>

\* The backoff sleep of loop (r, slot) ends: the next attempt is sent.
Wake(r, slot) ==
  /\ loop[r][slot].st = "sleeping"
  /\ loop[r][slot].sleep = 0
  /\ loop' = [loop EXCEPT ![r][slot].st = "calling", ![r][slot].sleep = -1]
  /\ ncalls' = [ncalls EXCEPT ![r][slot] = @ + 1]
  /\ payload' = [payload EXCEPT ![r] = Payload(r, messages)]
  /\ cliTimer' = [cliTimer EXCEPT ![r] = IF pc[r] = slot THEN TimerOnRetry(@) ELSE @]
  /\ UNCHANGED <<config, files, messages, pc, res, resTimer, elapsed, outcome, surfaced,
                 reply, body, sends, uncaught>>

\* The timer of withTimeout fires: the race rejects with the client timeout
\* and the retry loop runs on unobserved.
ClientTimeout(r) ==
  /\ cliTimer[r] = 0
  /\ pc[r] \in Slots
  /\ Continue(r, pc[r], ClientTimeoutErr(pc[r]), <<>>, loop)
  /\ UNCHANGED <<config, files>>

\* The response timer fires.
ServerTimeout(r) ==
  /\ resTimer[r] = 0
  /\ resTimer' = [resTimer EXCEPT ![r] = -1]
  /\ res' = [res EXCEPT ![r] = DeadlineResponse(@)]
  /\ sends' = [sends EXCEPT ![r] = IF res'[r] # res[r] THEN @ + 1 ELSE @]
  /\ UNCHANGED <<config, files, messages, pc, cliTimer, elapsed, loop, ncalls, outcome,
                 surfaced, payload, reply, body, uncaught>>

\* One tick passes: no timer is due, some timer is pending.
Tick ==
  /\ \A r \in Req :
       /\ resTimer[r] # 0
       /\ cliTimer[r] # 0
       /\ \A s \in Slots : loop[r][s].sleep # 0
  /\ \E r \in Req :
       \/ resTimer[r] > 0
       \/ cliTimer[r] > 0
       \/ \E s \in Slots : loop[r][s].sleep > 0
  /\ resTimer' = [r \in Req |-> IF resTimer[r] > 0 THEN resTimer[r] - 1 ELSE resTimer[r]]
  /\ cliTimer' = [r \in Req |-> IF cliTimer[r] > 0 THEN cliTimer[r] - 1 ELSE cliTimer[r]]
  /\ loop' = [r \in Req |-> [s \in Slots |->
                IF loop[r][s].sleep > 0
                THEN [loop[r][s] EXCEPT !.sleep = @ - 1]
                ELSE loop[r][s]]]
  /\ elapsed' = [r \in Req |->
                   IF pc[r] \in Slots THEN Min(elapsed[r] + 1, ClientTicks + 1)
                   ELSE elapsed[r]]
  /\ UNCHANGED <<config, files, messages, pc, res, ncalls, outcome, surfaced,
                 payload, reply, body, sends, uncaught>>

\* Every step of a handler but an arrival, with the upstream failing by a signal of sigs
\* or returning a text of texts.
Serve(sigs, texts) ==
  \/ \E r \in Req, s \in Slots, text \in texts : RespondOk(r, s, text)
  \/ \E r \in Req, s \in Slots, sig \in sigs : RespondErr(r, s, sig)
  \/ \E r \in Req, s \in Slots : Wake(r, s)
  \/ \E r \in Req : ClientTimeout(r)
  \/ \E r \in Req : ServerTimeout(r)
  \/ Tick

\* Requests arrive at any time, also while others are in flight; there is no
\* file_context.txt.
Next == (\E r \in Req : Arrive(r)) \/ Serve(CoreSignals, ShortReplies)

Spec == Init /\ [][Next]_vars

\* Requests arrive one after the other: none while a handler is running.
Quiet == \A r \in Req : pc[r] \in {"idle", "done"}
NextSeq == (\E r \in Req : Quiet /\ Arrive(r)) \/ Serve(CoreSignals, ShortReplies)

SpecSeq == Init /\ [][NextSeq]_vars

\* One request, every retry budget up to MaxRetriesOne, every signal, and no
\* file_context.txt.
InitOne ==
  /\ GPT_MODE \in {"CHAT", "PROMPT"}
  /\ HISTORY_LENGTH \in 0..MaxHistory
  /\ OPENAI_RETRIES \in 0..MaxRetriesOne
  /\ FALLBACK_MODEL \in Models
  /\ InitState
  /\ fileRead = "absent"

NextOne == Arrive(1) \/ Serve(Signals, ShortReplies)

SpecOne == InitOne /\ [][NextOne]_vars

\* One request, with file_context.txt there: its read completes at any time.
InitFile ==
  /\ GPT_MODE \in {"CHAT", "PROMPT"}
  /\ HISTORY_LENGTH \in 0..MaxHistory
  /\ OPENAI_RETRIES \in 0..MaxRetries
  /\ FALLBACK_MODEL \in Models
  /\ InitState
  /\ fileRead = "pending"

NextFile == Arrive(1) \/ LoadFile \/ Serve(CoreSignals, ShortReplies)

SpecFile == InitFile /\ [][NextFile]_vars

\* One request, the primary model failing only by errors that withRetry does
\* not retry, the fallback model by any signal of CoreSignals.
FatalSignals ==
  {[status |-> 400, code |-> ""], [status |-> 401, code |-> ""],
   [status |-> 0, code |-> "ENOTFOUND"]}

NextFatal ==
  \/ Arrive(1)
  \/ \E r \in Req, s \in Slots, text \in ShortReplies : RespondOk(r, s, text)
  \/ \E r \in Req, sig \in FatalSignals : RespondErr(r, "primary", sig)
  \/ \E r \in Req, sig \in CoreSignals : RespondErr(r, "fallback", sig)
  \/ \E r \in Req, s \in Slots : Wake(r, s)
  \/ \E r \in Req : ClientTimeout(r)
  \/ \E r \in Req : ServerTimeout(r)
  \/ Tick

SpecFatal == InitOne /\ [][NextFatal]_vars

\* One request, the upstream returning replies around the Twitch limit.
NextTrim == Arrive(1) \/ Serve(CoreSignals, Replies)

SpecTrim == Init /\ [][NextTrim]_vars

\* ---- properties -----------------------------------------------------------
Arrived == {r \in Req : pc[r] # "idle"}
\* The system message: the default prompt until the file text replaces it.
SystemMsg ==
  [role |-> "system",
   content |-> IF GPT_MODE = "CHAT" /\ fileRead = "loaded" THEN FileText ELSE DefaultPrompt]
UserMsg(r) == [role |-> "user", content |-> r]
AssistantMsg(r) == [role |-> "assistant", content |-> r]

\* C1: one withRetry invocation calls the upstream at most OPENAI_RETRIES + 1
\* times; a loop still sleeping has failed at most OPENAI_RETRIES times; the
\* error a loop rethrows to the handler is the error of its last call, and when
\* that error is a retriable one the loop has made exactly OPENAI_RETRIES + 1
\* calls.
C1_RetryBudget ==
  \A r \in Req :
    /\ \A s \in Slots :
         /\ ncalls[r][s] <= OPENAI_RETRIES + 1
         /\ loop[r][s].st = "sleeping" => loop[r][s].attempt <= OPENAI_RETRIES
    /\ surfaced[r].kind = "upstream" =>
         /\ surfaced[r].n = ncalls[r][surfaced[r].slot]
         /\ loop[r][surfaced[r].slot].st = "rejected"
         /\ (surfaced[r].status \in {408, 409, 425, 429, 500, 502, 503, 504}
               => ncalls[r][surfaced[r].slot] = OPENAI_RETRIES + 1)

\* C1 witness: a budget of 2, 503 on every attempt, no fallback: three calls,
\* the third 503 surfaced and answered 503.
C1_Witness ==
  /\ OPENAI_RETRIES = 2
  /\ FALLBACK_MODEL = OPENAI_MODEL
  /\ surfaced[1].kind = "upstream" /\ surfaced[1].status = 503 /\ surfaced[1].n = 3
  /\ ncalls[1]["primary"] = 3
  /\ res[1] = 503

\* C2: when the primary invocation has failed and the fallback model differs
\* from the primary, the fallback invocation has been made, and it is the
\* last one: once it has failed the handler is done and the error it caught is
\* the fallback invocation's.  When the models are equal no fallback invocation
\* is made and the primary's error is the one caught.
C2_FallbackOnce ==
  \A r \in Req :
    outcome[r]["primary"] = "failed" =>
      IF FALLBACK_MODEL # OPENAI_MODEL
      THEN /\ outcome[r]["fallback"] # "none"
           /\ ncalls[r]["fallback"] >= 1
           /\ outcome[r]["fallback"] = "failed" =>
                /\ pc[r] = "done"
                /\ surfaced[r].kind \in {"upstream", "timeout"}
                /\ surfaced[r].slot = "fallback"
      ELSE /\ outcome[r]["fallback"] = "none"
           /\ ncalls[r]["fallback"] = 0
           /\ surfaced[r].slot = "primary"

\* C2 witness: the primary failed with 401, the fallback with 503, and the 503
\* is what the handler answers with.
C2_Witness ==
  /\ outcome[1]["primary"] = "failed"
  /\ outcome[1]["fallback"] = "failed"
  /\ ncalls[1]["primary"] = 1
  /\ surfaced[1].slot = "fallback" /\ surfaced[1].status = 503
  /\ res[1] = 503

\* C3: a request whose primary invocation succeeded makes no upstream call
\* for the fallback.
C3_NoFallbackAfterSuccess ==
  \A r \in Req :
    outcome[r]["primary"] = "ok" =>
      /\ ncalls[r]["fallback"] = 0
      /\ loop[r]["fallback"].st = "none"
      /\ outcome[r]["fallback"] = "none"

\* C3 witness: the primary succeeded on a retry with a distinct fallback
\* model configured.
C3_Witness ==
  /\ FALLBACK_MODEL # OPENAI_MODEL
  /\ outcome[1]["primary"] = "ok"
  /\ ncalls[1]["primary"] = 2
  /\ res[1] = 200

\* C4: a pending callOpenAIChat invocation is never older than the client
\* timeout, and a handler that stops waiting for an invocation whose retry loop
\* has not settled does so at the timeout, with the client-timeout error of
\* that invocation.
C4_Pending ==
  \A r \in Req : pc[r] \in Slots => elapsed[r] <= ClientTicks

C4_Abandon ==
  \A r \in Req :
    (pc[r] \in Slots /\ pc'[r] # pc[r] /\ loop'[r][pc[r]].st \in {"calling", "sleeping"})
      => /\ elapsed[r] = ClientTicks
         /\ IF pc'[r] = "done"
            THEN surfaced'[r] = ClientTimeoutErr(pc[r])
            ELSE outcome'[r][pc[r]] = "failed"

C4_TimeoutWrapsRetries == [] C4_Pending /\ [][C4_Abandon]_vars

\* C4 witness: the timeout struck an invocation in the backoff sleep after
\* its first failed attempt, with retries left.
C4_Witness ==
  /\ pc[1] = "done"
  /\ surfaced[1] = ClientTimeoutErr("primary")
  /\ loop[1]["primary"].st = "sleeping"
  /\ loop[1]["primary"].attempt < OPENAI_RETRIES
  /\ res[1] = 500

\* C5: in CHAT mode, once a request has appended its user message, the
\* conversation is never longer than 1 + 2 * HISTORY_LENGTH.
C5_LengthBound ==
  (GPT_MODE = "CHAT" /\ Arrived # {}) => Len(messages) <= 1 + 2 * HISTORY_LENGTH

\* C6: in CHAT mode, while a request is between its user append and the end
\* of its handler, no step of another request changes the conversation.
C6_Atomic ==
  [][\A r \in Req :
       (GPT_MODE = "CHAT" /\ pc[r] \in Slots /\ pc'[r] \in Slots)
         => messages' = messages]_vars

\* C7: in CHAT mode, an arrival that evicts removes exactly the two entries
\* after the system message, and they are a user message followed by the
\* assistant message that answered it.
C7_EvictsWholePair ==
  [][\A r \in Req :
       (GPT_MODE = "CHAT" /\ pc[r] = "idle" /\ pc'[r] # "idle"
          /\ Len(messages') < Len(messages) + 1)
         => LET pushed == Append(messages, UserMsg(r))
            IN  /\ Len(pushed) >= 3
                /\ pushed[2].role = "user"
                /\ pushed[3] = AssistantMsg(pushed[2].content)
                /\ messages' = <<pushed[1]>> \o SubSeq(pushed, 4, Len(pushed))]_vars

\* C8: in CHAT mode, after N requests served one after the other and each
\* answered 200, the conversation is the system message followed by the
\* (user, assistant) pairs of the last min(N, HISTORY_LENGTH) requests.
Window(n, h) ==
  LET k == Min(n, h)
  IN  [i \in 1..(1 + 2 * k) |->
         IF i = 1 THEN SystemMsg
         ELSE IF i % 2 = 0 THEN UserMsg(n - k + (i \div 2))
         ELSE AssistantMsg(n - k + (i \div 2))]

C8_SlidingWindow ==
  (GPT_MODE = "CHAT" /\ \A r \in Arrived : pc[r] = "done" /\ res[r] = 200)
    => messages = Window(Cardinality(Arrived), HISTORY_LENGTH)

\* C9: a request whose response timer is no longer pending has been answered,
\* and with 504 when its handler is still running: no request is left
\* unanswered past the deadline.
C9_AnsweredByDeadline ==
  \A r \in Req :
    (pc[r] # "idle" /\ resTimer[r] = -1)
      => IF pc[r] \in Slots THEN res[r] = 504 ELSE res[r] # 0

\* C9 witness: the primary invocation timed out, the fallback invocation is
\* running, and the deadline has answered 504.
C9_Witness ==
  /\ pc[1] = "fallback"
  /\ loop[1]["fallback"].st = "calling"
  /\ resTimer[1] = -1
  /\ res[1] = 504

\* C10: a request that failed before the deadline is answered 503 when the
\* status of the caught error is 429, 500, 502, 503 or 504, else 500, and
\* the caught error is the fallback's if a fallback was attempted, else the
\* primary's.
C10_FailureStatus ==
  \A r \in Req :
    (surfaced[r].kind \in {"upstream", "timeout"} /\ res[r] # 504)
      => /\ res[r] = IF surfaced[r].status \in {429, 500, 502, 503, 504}
                     THEN 503 ELSE 500
         /\ surfaced[r].slot =
              IF outcome[r]["fallback"] # "none" THEN "fallback" ELSE "primary"

\* C10 witness: 408 on every attempt of the fallback, retries exhausted,
\* answered 500.
C10_Witness ==
  /\ surfaced[1].kind = "upstream" /\ surfaced[1].status = 408
  /\ surfaced[1].slot = "fallback"
  /\ surfaced[1].n = OPENAI_RETRIES + 1
  /\ res[1] = 500

\* C11: when the primary model fails only by errors whose status is none of
\* 408, 409, 425, 429, 500, 502, 503, 504 and whose code is no transient
\* network code, its retry loop never sleeps and the model is called once:
\* the loop rejects at its first failed attempt, whatever the retry budget.
C11_NoRetryOfFatal ==
  \A r \in Req :
    /\ loop[r]["primary"].st # "sleeping"
    /\ ncalls[r]["primary"] <= 1
    /\ loop[r]["primary"].st = "rejected" => loop[r]["primary"].attempt = 1
    /\ (surfaced[r].kind = "upstream" /\ surfaced[r].slot = "primary")
         => /\ surfaced[r].n = 1
            /\ [status |-> surfaced[r].status, code |-> surfaced[r].code] \in FatalSignals

\* A retry budget is left, the primary call failed once and the fallback call
\* is under way.
C11_Witness ==
  /\ OPENAI_RETRIES >= 1
  /\ pc[1] = "fallback"
  /\ loop[1]["primary"].st = "rejected"
  /\ ncalls[1]["primary"] = 1
  /\ ncalls[1]["fallback"] = 1

\* C12: a timer of withTimeout is pending only while the handler awaits that
\* withTimeout; an operation that settles first passes on its own outcome,
\* and otherwise the budget has elapsed and the client timeout is thrown.
C12_Idle ==
  \A r \in Req : pc[r] \notin Slots => cliTimer[r] = -1

C12_Settle ==
  \A r \in Req :
    (pc[r] \in Slots /\ pc'[r] # pc[r])
      => LET s == pc[r]
         IN  IF loop'[r][s].st = "resolved"
             THEN /\ outcome'[r][s] = "ok"
                  /\ pc'[r] = "done"
                  /\ reply'[r] \in ShortReplies
             ELSE IF loop'[r][s].st = "rejected"
             THEN /\ outcome'[r][s] = "failed"
                  /\ pc'[r] = "done"
                       => /\ surfaced'[r].kind = "upstream"
                          /\ surfaced'[r].slot = s
                          /\ surfaced'[r].n = loop'[r][s].attempt
             ELSE /\ elapsed[r] = ClientTicks
                  /\ outcome'[r][s] = "failed"
                  /\ pc'[r] = "done" => surfaced'[r] = ClientTimeoutErr(s)

C12_TimerCleared == []C12_Idle /\ [][C12_Settle]_vars

\* The handler is done with the upstream error of its last call, no timer left.
C12_Witness ==
  /\ pc[1] = "done"
  /\ surfaced[1].kind = "upstream"
  /\ loop[1][surfaced[1].slot].st = "rejected"
  /\ cliTimer[1] = -1

\* C18: no request gets a second response: what was sent stays as it is,
\* whatever the handler does after it, and no handler throws out of its
\* catch block.
C18_Sent ==
  \A r \in Req :
    /\ sends[r] <= 1
    /\ sends[r] = 1 <=> res[r] # 0
    /\ r \notin uncaught

C18_Kept ==
  \A r \in Req :
    res[r] # 0 => (res'[r] = res[r] /\ sends'[r] = sends[r] /\ body'[r] = body[r])

C18_OneResponse == []C18_Sent /\ [][C18_Kept]_vars

\* The handler failed after the deadline callback had answered 504.
C18_Witness ==
  /\ res[1] = 504
  /\ pc[1] = "done"
  /\ surfaced[1].kind \in {"upstream", "timeout"}
  /\ sends[1] = 1

\* C13: in PROMPT mode no step of a request, whether its calls succeed, fail
\* or fall back, changes messages or file_context; only the completion of the
\* file read writes file_context.
C13_PromptFrame ==
  [][(GPT_MODE = "PROMPT" /\ fileRead' = fileRead)
       => (messages' = messages /\ file_context' = file_context)]_vars

\* A PROMPT-mode request was answered 200 by the fallback model, the file
\* text in place.
C13_Witness ==
  /\ GPT_MODE = "PROMPT"
  /\ pc[1] = "done" /\ res[1] = 200
  /\ outcome[1]["primary"] = "failed" /\ outcome[1]["fallback"] = "ok"
  /\ file_context = FileText
  /\ messages = <<SystemMsg>>

\* C14 as stated: the body of a 200 response is the reply itself when the
\* reply has at most 1000 characters, and its first 1000 characters otherwise.
C14_BodyIsReplyPrefix ==
  \A r \in Req :
    res[r] = 200
      => body[r] = IF Len(reply[r]) <= 1000 THEN reply[r] ELSE SubSeq(reply[r], 1, 1000)

\* C14: the body of a 200 response is the reply without its leading and
\* trailing whitespace when that has at most 1000 characters, and the first
\* 1000 characters of it otherwise.
C14_BodyIsTrimmedPrefix ==
  \A r \in Req :
    res[r] = 200
      => /\ reply[r] \in Replies
         /\ \A l \in 0..1, t \in 0..1, n \in ReplyLengths :
              reply[r] = Text(l, n, t) => body[r] = Text(0, Min(n, 1000), 0)

\* A reply of 1001 characters between two blanks was cut to 1000.
C14_Witness ==
  /\ res[1] = 200
  /\ reply[1] = Text(1, TwitchLimit + 1, 1)
  /\ Len(body[1]) = 1000

\* C15: the conversation always starts with the system message and holds no
\* other system message, whatever was appended or evicted.
C15_SystemFirst ==
  /\ Len(messages) >= 1
  /\ messages[1] = SystemMsg
  /\ \A i \in 2..Len(messages) : messages[i].role # "system"

\* With a window of one pair, the second request evicted the first pair.
C15_Witness ==
  /\ GPT_MODE = "CHAT" /\ HISTORY_LENGTH = 1
  /\ messages = <<SystemMsg, UserMsg(2), AssistantMsg(2)>>

\* C16: with file_context.txt there, every upstream call carries the file
\* text: as the system prompt in CHAT mode, as the prefix in PROMPT mode.
C16_FileBeforeRequests ==
  \A r \in Req :
    payload[r] # <<>>
      => IF GPT_MODE = "CHAT"
         THEN payload[r][1].content = FileText
         ELSE payload[r][2].prefix = FileText

\* C17: in CHAT mode every upstream call of a request after its first sends
\* the messages its previous call sent.
C17_SamePayload ==
  [][\A r \in Req : \A s \in Slots :
       (GPT_MODE = "CHAT" /\ ncalls'[r][s] > ncalls[r][s] /\ payload[r] # <<>>)
         => payload'[r] = payload[r]]_vars

\* C19: in CHAT mode every assistant message in the conversation is the
\* reply to a request that was answered 200.
C19_AssistantOnlyFor200 ==
  GPT_MODE = "CHAT"
    => \A i \in 1..Len(messages) :
         messages[i].role = "assistant" => res[messages[i].content] = 200

\* C20: in CHAT mode an arrival leaves its user message last in the
\* conversation and last in the messages of its first upstream call.
C20_QueryLast ==
  [][\A r \in Req :
       (GPT_MODE = "CHAT" /\ pc[r] = "idle" /\ pc'[r] # "idle")
         => /\ messages'[Len(messages')] = UserMsg(r)
            /\ payload'[r][Len(payload'[r])] = UserMsg(r)]_vars

====
